---- MODULE Spec2Model ----
(***************************************************************************)
(* Model of the two reliability primitives of nexus-pkg:                   *)
(*   - the ZooKeeper-backed DistributedLock (internal/zookeeper/lock.go),  *)
(*   - the transactional outbox (transactional/*.go) and the consumer-side *)
(*     FailureHandler (mq/failure_handler.go).                             *)
(* Each primitive has its own specification (LockSpec, OutboxSpec,         *)
(* HandlerSpec) over the shared list of variables.                         *)
(***************************************************************************)
EXTENDS Integers, Sequences, FiniteSets, TLC

\* ------------------------------------------------------------------ bounds
NumCallers == 2
NumGuids == 2
MaxSeq == 3

Callers == 1..NumCallers
Guids == 1..NumGuids

VARIABLES
    \* --- coordination service + DistributedLock objects
    zkNodes,      \* live children of the resource path
    nextSeq,      \* next sequence suffix the service assigns
    lpc,          \* caller -> position inside Lock() ("idle" outside it)
    lockNode,     \* caller -> DistributedLock.lockNode
    prevNode,     \* caller -> node whose watch the caller waits on
    watch,        \* caller -> kind of watch installed by ExistsW
    fired,        \* caller -> the watch's event channel holds an event
    held,         \* caller -> Lock() returned nil and Unlock() not yet called
    lres,         \* caller -> result of the caller's last call
    acquired,     \* nodes for which Lock() has returned nil
    \* --- outbox table, caller transactions, forwarders, broker
    messages,     \* rows of transactional_messages, index = id
    now,          \* wall clock, in minutes
    fpc,          \* forwarder -> position inside ForwardPendingMessages
    batch,        \* forwarder -> rows returned by FindPendingMessages
    cursor,       \* forwarder -> index of the row being forwarded
    pubOk,        \* forwarder -> WriteMessages of the current row returned nil
    broker,       \* messages the broker has accepted from forwarders
    \* --- FailureHandler and the logical message passing through it
    hcfg,         \* FailureHandler.config (NoCfg before NewFailureHandler)
    writers,      \* keys of FailureHandler.writers
    inMsg,        \* message delivered to the consumer, about to fail
    first,        \* topic, partition, offset of the message's first hop
    hops,         \* deliveries of the logical message so far
    out,          \* what the last Handle call did
    \* --- Forwarder.Start of each forwarder process
    spc,          \* forwarder -> position inside Forwarder.Start
    cancelled,    \* forwarder -> the ctx given to Start is done
    failures,     \* broker write failures so far (runs of unbounded length)
    fres,         \* forwarder -> what its direct ForwardPendingMessages call
                  \* returned ("none" before the first call, "running" inside)
    \* --- consumer workers inside FailureHandler.getWriter
    gpc,          \* worker -> position inside getWriter ("idle" outside it)
    gtopic,       \* worker -> the topic argument of its call
    gwriter,      \* worker -> the writer its last call returned
    mu,           \* holder of FailureHandler.mu, 0 when unlocked
    cache,        \* FailureHandler.writers as the workers see it: topic -> writer
    built,        \* topic -> number of NewKafkaWriter calls made for it
    \* --- callers inside NewDistributedLock / ensurePath
    segs,         \* paths that exist, each a sequence of its parts
    erid,         \* caller -> resource id given to NewDistributedLock
    epc,          \* caller -> position inside NewDistributedLock
    eidx,         \* caller -> segment ensurePath is at
    eerr          \* caller -> err of the loop iteration it is in

pathVars == <<segs, erid, epc, eidx, eerr>>

lockVars == <<zkNodes, nextSeq, lpc, lockNode, prevNode, watch, fired, held,
              lres, acquired, pathVars>>

outboxVars == <<messages, now, fpc, batch, cursor, pubOk, broker>>

workerVars == <<gpc, gtopic, gwriter, mu, cache, built>>

handlerVars == <<hcfg, writers, inMsg, first, hops, out, workerVars>>

startVars == <<spc, cancelled, failures, fres>>

nonLockVars == <<outboxVars, handlerVars, startVars, pathVars>>
nonPathVars == <<zkNodes, nextSeq, lpc, lockNode, prevNode, watch, fired, held,
                 lres, acquired, outboxVars, handlerVars, startVars>>
nonOutboxVars == <<lockVars, handlerVars, startVars>>
nonHandlerVars == <<lockVars, outboxVars, startVars, workerVars>>
nonWorkerVars == <<lockVars, outboxVars, startVars,
                   hcfg, writers, inMsg, first, hops, out>>

vars == <<zkNodes, nextSeq, lpc, lockNode, prevNode, watch, fired, held,
          lres, acquired,
          messages, now, fpc, batch, cursor, pubOk, broker,
          hcfg, writers, inMsg, first, hops, out,
          spc, cancelled, failures, fres,
          gpc, gtopic, gwriter, mu, cache, built,
          segs, erid, epc, eidx, eerr>>

\* ------------------------------------------------------- lock: helpers
\* lockNode == "" in the source.
NoNode == [guid |-> 0, seq |-> -1, owner |-> 0]

\* A child created by CreateProtectedEphemeralSequential is named
\* "_c_<guid>-lock-<seq>": a random 32-hex-digit guid chosen by the client,
\* then the zero-padded sequence suffix assigned by the service.  owner is
\* not part of the name: it is the session the ephemeral node belongs to
\* (the caller c whose connection created it).
NodeName(g, s, c) == [guid |-> g, seq |-> s, owner |-> c]

\* Byte-wise string order of two child names (what sort.Strings compares):
\* the guid part comes first, the sequence suffix last.
NameLess(a, b) ==
    \/ a.guid < b.guid
    \/ a.guid = b.guid /\ a.seq < b.seq

RECURSIVE SortStrings(_)
SortStrings(S) ==
    IF S = {} THEN <<>>
    ELSE LET m == CHOOSE x \in S : \A y \in S \ {x} : NameLess(x, y)
         IN  <<m>> \o SortStrings(S \ {m})

\* Index of name n in the sorted listing, 0 when it is not listed.
IndexOf(children, n) ==
    IF \E i \in 1..Len(children) : children[i] = n
    THEN CHOOSE i \in 1..Len(children) : children[i] = n
    ELSE 0

\* ------------------------------------------------------- lock: Init
LockInit ==
    /\ zkNodes = {}
    /\ nextSeq = 0
    /\ lpc = [c \in Callers |-> "idle"]
    /\ lockNode = [c \in Callers |-> NoNode]
    /\ prevNode = [c \in Callers |-> NoNode]
    /\ watch = [c \in Callers |-> "none"]
    /\ fired = [c \in Callers |-> FALSE]
    /\ held = [c \in Callers |-> FALSE]
    /\ lres = [c \in Callers |-> "none"]
    /\ acquired = {}

\* ------------------------------------------------------- lock: Lock()
\* Lock(), lines 47-51: create the sequential node and record it.
LockCreate(c) ==
    /\ lpc[c] = "idle"
    /\ nextSeq < MaxSeq
    /\ \E ok \in BOOLEAN :
         IF ok
         THEN \E g \in Guids :
                /\ zkNodes' = zkNodes \cup {NodeName(g, nextSeq, c)}
                /\ nextSeq' = nextSeq + 1
                /\ lockNode' = [lockNode EXCEPT ![c] = NodeName(g, nextSeq, c)]
                /\ lpc' = [lpc EXCEPT ![c] = "list"]
                /\ lres' = [lres EXCEPT ![c] = "none"]
         ELSE /\ lres' = [lres EXCEPT ![c] = "errCreate"]
              /\ UNCHANGED <<zkNodes, nextSeq, lockNode, lpc>>
    /\ UNCHANGED <<prevNode, watch, fired, held, acquired>>
    /\ UNCHANGED nonLockVars

\* Lock(), lines 55-79: list the children, sort them, return when own node
\* is children[0], else pick the node just before the own one.
LockList(c) ==
    /\ lpc[c] = "list"
    /\ \E ok \in BOOLEAN :
         IF ~ok
         THEN /\ lpc' = [lpc EXCEPT ![c] = "idle"]
              /\ lres' = [lres EXCEPT ![c] = "errChildren"]
              /\ UNCHANGED <<prevNode, held, acquired>>
         ELSE LET children == SortStrings(zkNodes)
                  idx == IndexOf(children, lockNode[c])
              IN  IF Len(children) > 0 /\ children[1] = lockNode[c]
                  THEN /\ lpc' = [lpc EXCEPT ![c] = "idle"]
                       /\ lres' = [lres EXCEPT ![c] = "ok"]
                       /\ held' = [held EXCEPT ![c] = TRUE]
                       /\ acquired' = acquired \cup {lockNode[c]}
                       /\ UNCHANGED prevNode
                  ELSE IF idx - 1 < 1
                  THEN /\ lpc' = [lpc EXCEPT ![c] = "idle"]
                       /\ lres' = [lres EXCEPT ![c] = "errNoPrev"]
                       /\ UNCHANGED <<prevNode, held, acquired>>
                  ELSE /\ lpc' = [lpc EXCEPT ![c] = "watch"]
                       /\ prevNode' = [prevNode EXCEPT ![c] = children[idx - 1]]
                       /\ UNCHANGED <<lres, held, acquired>>
    /\ UNCHANGED <<zkNodes, nextSeq, lockNode, watch, fired>>
    /\ UNCHANGED nonLockVars

\* Lock(), lines 82-89: ExistsW on the previous node.  zk.Conn.ExistsW turns
\* ErrNoNode into (exists = false, err = nil) and leaves a watch for the
\* node's creation, so the `err == zk.ErrNoNode` branch is never taken and a
\* missing node is waited on like a present one.
LockWatch(c) ==
    /\ lpc[c] = "watch"
    /\ \E ok \in BOOLEAN :
         IF ~ok
         THEN /\ lpc' = [lpc EXCEPT ![c] = "idle"]
              /\ lres' = [lres EXCEPT ![c] = "errWatch"]
              /\ UNCHANGED <<watch, fired>>
         ELSE /\ lpc' = [lpc EXCEPT ![c] = "wait"]
              /\ watch' = [watch EXCEPT ![c] =
                              IF prevNode[c] \in zkNodes THEN "data" ELSE "exist"]
              /\ fired' = [fired EXCEPT ![c] = FALSE]
              /\ UNCHANGED lres
    /\ UNCHANGED <<zkNodes, nextSeq, lockNode, prevNode, held, acquired>>
    /\ UNCHANGED nonLockVars

\* Lock(), lines 92-97: the watch's event arrived; loop again.
LockWake(c) ==
    /\ lpc[c] = "wait"
    /\ fired[c]
    /\ lpc' = [lpc EXCEPT ![c] = "list"]
    /\ watch' = [watch EXCEPT ![c] = "none"]
    /\ fired' = [fired EXCEPT ![c] = FALSE]
    /\ UNCHANGED <<zkNodes, nextSeq, lockNode, prevNode, held, lres, acquired>>
    /\ UNCHANGED nonLockVars

\* Lock(), lines 98-99: 30 s passed in the select; the node is left behind.
LockTimeout(c) ==
    /\ lpc[c] = "wait"
    /\ lpc' = [lpc EXCEPT ![c] = "idle"]
    /\ lres' = [lres EXCEPT ![c] = "timeout"]
    /\ watch' = [watch EXCEPT ![c] = "none"]
    /\ fired' = [fired EXCEPT ![c] = FALSE]
    /\ UNCHANGED <<zkNodes, nextSeq, lockNode, prevNode, held, acquired>>
    /\ UNCHANGED nonLockVars

\* ------------------------------------------------------- lock: Unlock()
\* Deleting node n triggers the data watches set on it (one-shot).
FireWatches(n) ==
    [w \in Callers |->
        IF watch[w] = "data" /\ prevNode[w] = n /\ lpc[w] = "wait"
        THEN TRUE ELSE fired[w]]

\* Unlock() clearing l.lockNode on every return after the Delete.
LockNodeAfter_Cleared(c, failed) == NoNode

\* Lines 111-114: l.lockNode when Unlock() returns after the Delete: kept
\* on the error return of line 112, "" after line 114.
LockNodeAfter(c, failed) == IF failed THEN lockNode[c] ELSE NoNode

\* Unlock(), lines 105-115.
Unlock(c) ==
    /\ lpc[c] = "idle"
    /\ held' = [held EXCEPT ![c] = FALSE]
    /\ IF lockNode[c] = NoNode
       THEN /\ lres' = [lres EXCEPT ![c] = "errNoLock"]
            /\ UNCHANGED <<zkNodes, lockNode, fired>>
       ELSE \E ok \in BOOLEAN :
              IF ~ok
              THEN /\ lres' = [lres EXCEPT ![c] = "errDelete"]
                   /\ lockNode' = [lockNode EXCEPT
                                      ![c] = LockNodeAfter(c, TRUE)]
                   /\ UNCHANGED <<zkNodes, fired>>
              ELSE /\ zkNodes' = zkNodes \ {lockNode[c]}
                   /\ fired' = IF lockNode[c] \in zkNodes
                               THEN FireWatches(lockNode[c]) ELSE fired
                   /\ lockNode' = [lockNode EXCEPT
                                      ![c] = LockNodeAfter(c, FALSE)]
                   /\ lres' = [lres EXCEPT ![c] = "unlocked"]
    /\ UNCHANGED <<nextSeq, lpc, prevNode, watch, acquired>>
    /\ UNCHANGED nonLockVars

LockNext ==
    \E c \in Callers :
        \/ LockCreate(c)
        \/ LockList(c)
        \/ LockWatch(c)
        \/ LockWake(c)
        \/ LockTimeout(c)
        \/ Unlock(c)

\* The service removes an ephemeral node on its own (line 47: the node
\* lives as long as the session that created it), which is how a later
\* Delete of it gets zk.ErrNoNode (line 111); the watches on it fire.
NodeGone(n) ==
    /\ n \in zkNodes
    /\ zkNodes' = zkNodes \ {n}
    /\ fired' = FireWatches(n)
    /\ UNCHANGED <<nextSeq, lpc, lockNode, prevNode, watch, held, lres,
                   acquired>>
    /\ UNCHANGED nonLockVars

LockExpiryNext ==
    \/ LockNext
    \/ \E n \in zkNodes : NodeGone(n)

\* Lock(), lines 47-51, in a run of unbounded length.  The guid of a new
\* node is a fresh random value, so it differs from the guid of every live
\* node and the order of the live names is decided by their guids alone;
\* the sequence suffix only breaks ties between equal guids and is not
\* counted here: every node carries the suffix MaxSeq.
LockCreateFresh(c) ==
    /\ lpc[c] = "idle"
    /\ \E ok \in BOOLEAN :
         IF ok
         THEN \E g \in Guids :
                /\ \A n \in zkNodes : n.guid # g
                /\ zkNodes' = zkNodes \cup {NodeName(g, MaxSeq, c)}
                /\ lockNode' = [lockNode EXCEPT ![c] = NodeName(g, MaxSeq, c)]
                /\ lpc' = [lpc EXCEPT ![c] = "list"]
                /\ lres' = [lres EXCEPT ![c] = "none"]
         ELSE /\ lres' = [lres EXCEPT ![c] = "errCreate"]
              /\ UNCHANGED <<zkNodes, lockNode, lpc>>
    /\ UNCHANGED <<nextSeq, prevNode, watch, fired, held, acquired>>
    /\ UNCHANGED nonLockVars

LockFairNext ==
    \E c \in Callers :
        \/ LockCreateFresh(c)
        \/ LockList(c)
        \/ LockWatch(c)
        \/ LockWake(c)
        \/ LockTimeout(c)
        \/ Unlock(c)

\* ------------------------------------------------------- lock: ensurePath
ResourceIds == {"order", "stock"}

\* Lines 15, 27: lockPath = lockRoot + "/" + resourceID, as the parts
\* ensurePath splits it into (line 119).
LockPathOf(rid) == <<"distributed_locks", rid>>

\* Lines 120-125: currentPath at the part the loop is at.
CurrentPath(c) == SubSeq(LockPathOf(erid[c]), 1, eidx[c])

PathInit ==
    /\ segs = {}
    /\ erid = [c \in Callers |-> "none"]
    /\ epc = [c \in Callers |-> "new"]
    /\ eidx = [c \in Callers |-> 0]
    /\ eerr = [c \in Callers |-> "none"]

\* Line 31: NewDistributedLock calls ensurePath(conn, lockPath).
NewDistributedLock(c, rid) ==
    /\ epc[c] = "new"
    /\ erid' = [erid EXCEPT ![c] = rid]
    /\ epc' = [epc EXCEPT ![c] = "exists"]
    /\ eidx' = [eidx EXCEPT ![c] = 1]
    /\ UNCHANGED <<segs, eerr>>
    /\ UNCHANGED nonPathVars

\* The loop of lines 121-137 goes to the next segment, or ensurePath
\* returns nil and NewDistributedLock returns the lock object.
NextSegment(c) ==
    IF eidx[c] < Len(LockPathOf(erid[c]))
    THEN /\ epc' = [epc EXCEPT ![c] = "exists"]
         /\ eidx' = [eidx EXCEPT ![c] = eidx[c] + 1]
    ELSE /\ epc' = [epc EXCEPT ![c] = "done"]
         /\ UNCHANGED eidx

\* Lines 126-129: conn.Exists; an error is returned and NewDistributedLock
\* panics on it (line 33).
PathExists(c) ==
    /\ epc[c] = "exists"
    /\ \E ok \in BOOLEAN :
         /\ eerr' = [eerr EXCEPT ![c] = IF ok THEN "nil" ELSE "error"]
         /\ IF ~ok
            THEN /\ epc' = [epc EXCEPT ![c] = "panic"]
                 /\ UNCHANGED eidx
            ELSE IF CurrentPath(c) \in segs
            THEN NextSegment(c)
            ELSE /\ epc' = [epc EXCEPT ![c] = "create"]
                 /\ UNCHANGED eidx
    /\ UNCHANGED <<segs, erid>>
    /\ UNCHANGED nonPathVars

\* Line 133 failing on every error of Create.
CreateFailed_AnyError(err) == err # "nil"

\* Line 133: err != nil && err != zk.ErrNodeExists.
CreateFailed(err) == err # "nil" /\ err # "ErrNodeExists"

\* Lines 130-136: conn.Create of the segment, which by now another caller
\* may have created.
PathCreate(c) ==
    /\ epc[c] = "create"
    /\ \E ok \in BOOLEAN :
         LET err == IF ~ok THEN "error"
                    ELSE IF CurrentPath(c) \in segs THEN "ErrNodeExists"
                    ELSE "nil"
         IN  /\ eerr' = [eerr EXCEPT ![c] = err]
             /\ segs' = IF err = "nil" THEN segs \cup {CurrentPath(c)}
                        ELSE segs
             /\ IF CreateFailed(err)
                THEN /\ epc' = [epc EXCEPT ![c] = "panic"]
                     /\ UNCHANGED eidx
                ELSE NextSegment(c)
    /\ UNCHANGED erid
    /\ UNCHANGED nonPathVars

PathNext ==
    \/ \E c \in Callers, rid \in ResourceIds : NewDistributedLock(c, rid)
    \/ \E c \in Callers : PathExists(c)
    \/ \E c \in Callers : PathCreate(c)

\* ------------------------------------------------------- outbox: bounds
MaxMessages == 1
MaxTime == 4

Forwarders == {"f1", "f2"}
Topics == {"orders", "stock"}
Keys == {"k1"}
Payloads == {"p1"}

\* ------------------------------------------------------- outbox: store
\* time.Now().Add(-1*time.Minute): the re-poll window, in minutes.
RepollWindow == 1
\* FindPendingMessages(ctx, 100) in ForwardPendingMessages.
ForwardLimit == 100

\* NewMessage with the key and the payload taking each other's place.
NewMessage_KeyPayloadSwapped(topic, key, payload) ==
    [topic |-> topic, key |-> payload, payload |-> key, status |-> "PENDING"]

\* SendInTx, lines 29-34: the Message handed to the store.
NewMessage(topic, key, payload) ==
    [topic |-> topic, key |-> key, payload |-> payload, status |-> "PENDING"]

\* gormStore.CreateInTx: s.db.WithContext(ctx).Create(msg).  The insert runs on
\* the store's own handle s.db, not on the caller's tx, so the row is in the
\* table as soon as the call returns.  gorm fills the zero RetryCount and the
\* autoUpdateTime column; the id is the next auto-increment (created_at is
\* never read and is left out).
\* The field tx is not a column: it follows the caller's transaction in which
\* SendInTx was called ("open", then "committed" or "rolledback").
CreateInTx(msg) ==
    Append(messages,
           [topic |-> msg.topic, key |-> msg.key, payload |-> msg.payload,
            status |-> msg.status, retryCount |-> 0,
            updatedAt |-> now, tx |-> "open"])

\* Eligible without the staleness condition.
Eligible_NoWindow(id) ==
    messages[id].status = "PENDING"

\* Eligible leaving out the rows a forwarder has fetched and not yet handled.
Eligible_Unclaimed(id) ==
    /\ messages[id].status = "PENDING"
    /\ messages[id].updatedAt < now - RepollWindow
    /\ \A f \in Forwarders : \A i \in 1..Len(batch[f]) : batch[f][i].id # id

\* Eligible with a ceiling of one retry.
Eligible_RetryCeiling(id) ==
    /\ messages[id].status = "PENDING"
    /\ messages[id].updatedAt < now - RepollWindow
    /\ messages[id].retryCount < 1

\* WHERE status = 'PENDING' AND updated_at < now - 1 minute.
Eligible(id) ==
    /\ messages[id].status = "PENDING"
    /\ messages[id].updatedAt < now - RepollWindow

\* ORDER BY id asc LIMIT limit, as the rows read into []*Message.
RECURSIVE TakeAsc(_, _, _)
TakeAsc(id, limit, acc) ==
    IF id > Len(messages) \/ Len(acc) >= limit THEN acc
    ELSE TakeAsc(id + 1, limit,
                 IF Eligible(id)
                 THEN Append(acc, [id |-> id,
                                   topic |-> messages[id].topic,
                                   key |-> messages[id].key,
                                   payload |-> messages[id].payload,
                                   retryCount |-> messages[id].retryCount])
                 ELSE acc)

\* FindPendingMessages without the Limit(limit) of line 84.
FindPendingMessages_NoLimit(limit) == TakeAsc(1, Len(messages), <<>>)

FindPendingMessages(limit) == TakeAsc(1, limit, <<>>)

\* gormStore.UpdateStatus: Updates(map) on the row with that id; gorm also
\* sets the autoUpdateTime column.  No WHERE on the current status or count.
UpdateStatus(id, status, newRetryCount) ==
    [messages EXCEPT ![id].status = status,
                     ![id].retryCount = newRetryCount,
                     ![id].updatedAt = now]

\* ------------------------------------------------------- outbox: Init
OutboxInit ==
    /\ messages = <<>>
    /\ now = 0
    /\ fpc = [f \in Forwarders |-> "idle"]
    /\ batch = [f \in Forwarders |-> <<>>]
    /\ cursor = [f \in Forwarders |-> 0]
    /\ pubOk = [f \in Forwarders |-> FALSE]
    /\ broker = {}

\* ------------------------------------------------------- outbox: callers
\* Service.SendInTx, called by business code inside a transaction it opened.
SendInTx(topic, key, payload) ==
    /\ Len(messages) < MaxMessages
    /\ messages' = CreateInTx(NewMessage(topic, key, payload))
    /\ UNCHANGED <<now, fpc, batch, cursor, pubOk, broker>>
    /\ UNCHANGED nonOutboxVars

\* The caller commits the transaction in which it sent message id.
TxCommit(id) ==
    /\ messages[id].tx = "open"
    /\ messages' = [messages EXCEPT ![id].tx = "committed"]
    /\ UNCHANGED <<now, fpc, batch, cursor, pubOk, broker>>
    /\ UNCHANGED nonOutboxVars

\* The caller rolls that transaction back.  The rollback undoes the writes
\* made through tx; the outbox row was written through s.db and stays.
TxRollback(id) ==
    /\ messages[id].tx = "open"
    /\ messages' = [messages EXCEPT ![id].tx = "rolledback"]
    /\ UNCHANGED <<now, fpc, batch, cursor, pubOk, broker>>
    /\ UNCHANGED nonOutboxVars

\* Time passes.
Tick ==
    /\ now < MaxTime
    /\ now' = now + 1
    /\ UNCHANGED <<messages, fpc, batch, cursor, pubOk, broker>>
    /\ UNCHANGED nonOutboxVars

\* ------------------------------------------------------- outbox: forwarder
\* ForwardPendingMessages, lines 46-54: fetch; an error or an empty result
\* ends the call.  oks: whether FindPendingMessages can return nil / an error
\* where the call is made.
Fetch(f, oks) ==
    /\ fpc[f] = "idle"
    /\ \E ok \in oks :
         LET found == IF ok THEN FindPendingMessages(ForwardLimit) ELSE <<>>
         IN  /\ batch' = [batch EXCEPT ![f] = found]
             /\ IF Len(found) = 0
                THEN UNCHANGED <<fpc, cursor>>
                ELSE /\ fpc' = [fpc EXCEPT ![f] = "publish"]
                     /\ cursor' = [cursor EXCEPT ![f] = 1]
    /\ UNCHANGED <<messages, now, pubOk, broker>>

\* ForwardPendingMessages called on its own: the store may fail at any call.
FwdFetch(f) ==
    /\ Fetch(f, BOOLEAN)
    /\ UNCHANGED nonOutboxVars

\* KafkaMsg sending the key as the value.
KafkaMsg_KeyAsValue(msg) ==
    [id |-> msg.id, topic |-> msg.topic, key |-> msg.key, value |-> msg.key]

\* The kafka.Message built from the fetched row, lines 61-65.
KafkaMsg(msg) ==
    [id |-> msg.id, topic |-> msg.topic, key |-> msg.key, value |-> msg.payload]

\* Lines 74-75: writer.WriteMessages; the broker accepts the message or not.
Publish(f, oks) ==
    /\ fpc[f] = "publish"
    /\ \E ok \in oks :
         /\ pubOk' = [pubOk EXCEPT ![f] = ok]
         /\ broker' = IF ok THEN broker \cup {KafkaMsg(batch[f][cursor[f]])}
                      ELSE broker
    /\ fpc' = [fpc EXCEPT ![f] = "update"]
    /\ UNCHANGED <<messages, now, batch, cursor>>

FwdPublish(f) ==
    /\ Publish(f, BOOLEAN)
    /\ UNCHANGED nonOutboxVars

\* StatusAfter with the two outcomes exchanged.
StatusAfter_Exchanged(ok) == IF ok THEN "PENDING" ELSE "SENT"

\* StatusAfter marking the record SENT whatever the write returned.
StatusAfter_AlwaysSent(ok) == "SENT"

\* The status and retry count ForwardPendingMessages writes, lines 78-86.
StatusAfter(ok) == IF ok THEN "SENT" ELSE "PENDING"

\* RetryCountAfter counting the successful attempt too.
RetryCountAfter_CountsSuccess(ok, msg) == msg.retryCount + 1

RetryCountAfter(ok, msg) == IF ok THEN msg.retryCount ELSE msg.retryCount + 1

\* MoreRows ending the loop at the first row whose write failed.
MoreRows_StopOnFailure(f) == cursor[f] < Len(batch[f]) /\ pubOk[f]

\* Line 59: the range loop has a next row.
MoreRows(f) == cursor[f] < Len(batch[f])

\* Lines 78-87: UpdateStatus with the values of the fetched row; its error is
\* discarded, then the loop goes to the next row or the call returns.
Update(f, oks) ==
    /\ fpc[f] = "update"
    /\ LET msg == batch[f][cursor[f]]
       IN  \E ok \in oks :
             IF ok
             THEN messages' = UpdateStatus(msg.id, StatusAfter(pubOk[f]),
                                           RetryCountAfter(pubOk[f], msg))
             ELSE UNCHANGED messages
    /\ IF MoreRows(f)
       THEN /\ cursor' = [cursor EXCEPT ![f] = cursor[f] + 1]
            /\ fpc' = [fpc EXCEPT ![f] = "publish"]
            /\ UNCHANGED batch
       ELSE /\ cursor' = [cursor EXCEPT ![f] = 0]
            /\ fpc' = [fpc EXCEPT ![f] = "idle"]
            /\ batch' = [batch EXCEPT ![f] = <<>>]
    /\ pubOk' = [pubOk EXCEPT ![f] = FALSE]
    /\ UNCHANGED <<now, broker>>

FwdUpdate(f) ==
    /\ Update(f, BOOLEAN)
    /\ UNCHANGED nonOutboxVars

OutboxNext ==
    \/ \E topic \in Topics : \E key \in Keys : \E payload \in Payloads :
         SendInTx(topic, key, payload)
    \/ \E id \in 1..Len(messages) : TxCommit(id)
    \/ \E id \in 1..Len(messages) : TxRollback(id)
    \/ Tick
    \/ \E f \in Forwarders : FwdFetch(f)
    \/ \E f \in Forwarders : FwdPublish(f)
    \/ \E f \in Forwarders : FwdUpdate(f)

\* ------------------------------------------------------- outbox: Forwarder.Start
\* Broker write failures allowed in a run of Forwarder.Start (the broker works
\* again after that many failed writes).
MaxFailures == 1

\* The forwarders run by Forwarder.Start: the one background task of a
\* process instance.
Instances == {"f1"}

StartInit ==
    /\ spc = [f \in Forwarders |-> "new"]
    /\ cancelled = [f \in Forwarders |-> FALSE]
    /\ failures = 0
    /\ fres = [f \in Forwarders |-> "none"]

\* Outcomes of a store call made by f: FindPendingMessages and UpdateStatus
\* run on s.db.WithContext(ctx), which returns ctx.Err() once ctx is done.
StoreOks(f) == IF cancelled[f] THEN {FALSE} ELSE {TRUE}

\* Outcomes of writer.WriteMessages(spanCtx, kafkaMsg): with ctx done the
\* write returns nil or ctx.Err(); with ctx live the broker may refuse the
\* write while failures are left.
WriteOks(f) ==
    IF cancelled[f] \/ failures < MaxFailures THEN BOOLEAN ELSE {TRUE}

\* Forwarder.Start, lines 26-29: the ticker is created, the loop entered.
Start(f) ==
    /\ spc[f] = "new"
    /\ spc' = [spc EXCEPT ![f] = "select"]
    /\ UNCHANGED <<cancelled, failures, fres>>
    /\ UNCHANGED <<lockVars, outboxVars, handlerVars>>

\* The owner of the ctx given to Start cancels it.
Cancel(f) ==
    /\ ~cancelled[f]
    /\ cancelled' = [cancelled EXCEPT ![f] = TRUE]
    /\ UNCHANGED <<spc, failures, fres>>
    /\ UNCHANGED <<lockVars, outboxVars, handlerVars>>

\* Lines 33-35: the select takes <-ctx.Done() and Start returns nil.
StartStop(f) ==
    /\ spc[f] = "select"
    /\ cancelled[f]
    /\ spc' = [spc EXCEPT ![f] = "returned"]
    /\ UNCHANGED <<cancelled, failures, fres>>
    /\ UNCHANGED <<lockVars, outboxVars, handlerVars>>

\* Lines 36-38: the select takes <-f.ticker.C (also with ctx done: select
\* picks among its ready cases) and ForwardPendingMessages(ctx) is called.
StartTick(f) ==
    /\ spc[f] = "select"
    /\ spc' = [spc EXCEPT ![f] = "call"]
    /\ UNCHANGED <<cancelled, failures, fres>>
    /\ UNCHANGED <<lockVars, outboxVars, handlerVars>>

\* Start is back in its select when ForwardPendingMessages has returned.
AfterStep(f) ==
    [spc EXCEPT ![f] = IF fpc'[f] = "idle" THEN "select" ELSE "call"]

\* ForwardPendingMessages as called by Start, with Start's ctx.
CallFetch(f) ==
    /\ spc[f] = "call"
    /\ Fetch(f, StoreOks(f))
    /\ spc' = AfterStep(f)
    /\ UNCHANGED <<cancelled, failures, fres>>
    /\ UNCHANGED <<lockVars, handlerVars>>

CallPublish(f) ==
    /\ spc[f] = "call"
    /\ Publish(f, WriteOks(f))
    /\ failures' = IF ~cancelled[f] /\ ~pubOk'[f] THEN failures + 1
                   ELSE failures
    /\ UNCHANGED <<spc, cancelled, fres>>
    /\ UNCHANGED <<lockVars, handlerVars>>

CallUpdate(f) ==
    /\ spc[f] = "call"
    /\ Update(f, StoreOks(f))
    /\ spc' = AfterStep(f)
    /\ UNCHANGED <<cancelled, failures, fres>>
    /\ UNCHANGED <<lockVars, handlerVars>>

\* A minute passes, in a run of unbounded length.  FindPendingMessages reads
\* the clock only in `updated_at < now - 1 minute`, so the passing of a
\* minute is kept as every updated_at lying one minute further back from
\* now; an updated_at already outside the window stays where it is.
Minute ==
    /\ messages' =
         [id \in 1..Len(messages) |->
            [messages[id] EXCEPT !.updatedAt =
                IF @ >= now - RepollWindow THEN @ - 1 ELSE @]]
    /\ UNCHANGED <<now, fpc, batch, cursor, pubOk, broker>>
    /\ UNCHANGED nonOutboxVars

ForwarderNext ==
    \/ \E topic \in Topics : \E key \in Keys : \E payload \in Payloads :
         SendInTx(topic, key, payload)
    \/ \E id \in 1..Len(messages) : TxCommit(id)
    \/ \E id \in 1..Len(messages) : TxRollback(id)
    \/ Minute
    \/ \E f \in Instances : Start(f)
    \/ \E f \in Instances : Cancel(f)
    \/ \E f \in Instances : StartStop(f)
    \/ \E f \in Instances : StartTick(f)
    \/ \E f \in Instances : CallFetch(f)
    \/ \E f \in Instances : CallPublish(f)
    \/ \E f \in Instances : CallUpdate(f)

\* ------------------------------------------------------- handler: bounds
MaxHops == 4
MaxPartition == 1
MaxOffset == 1

\* A string is a sequence of pieces (a piece is a run of characters, a digit
\* or a sign); the empty string is <<>>.
HeaderRetryCount == <<"retry-count">>
HeaderOriginalTopic == <<"dlt-original-topic">>
HeaderOriginalPartition == <<"dlt-original-partition">>
HeaderOriginalOffset == <<"dlt-original-offset">>
HeaderExceptionFqcn == <<"dlt-exception-fqcn">>
HeaderExceptionMessage == <<"dlt-exception-message">>
HeaderExceptionStacktrace == <<"dlt-exception-stacktrace">>

\* Inputs: the topics consumed, the configurations a handler is built with,
\* the errors a consumer fails with (NoErr is a nil error), and the
\* retry-count header values a first delivery may carry.
OriginalTopics == {<<"orders">>, <<"stock">>}
DelayLists == {<<>>, <<5>>, <<5, 30, 120>>}
RetryTemplates == {<<"{topic}", ".retry.", "{delaySec}", "s">>}
DltTemplates == {<<"{topic}", ".dlt">>}
RetryableLists == {<<>>, <<"timeout">>}
NoErr == "<nil>"
Errors == {NoErr, "timeout", "timeout: db", "bad input"}
FirstHeaders ==
    {<<>>} \cup
    {<<[key |-> HeaderRetryCount, value |-> v]>> :
        v \in {<<"0">>, <<"2">>, <<"3">>, <<"7">>, <<"+", "1">>, <<"-", "1">>,
               <<"abc">>}}

NoCfg == [enabled |-> FALSE, made |-> FALSE]
NoMsg == [topic |-> <<>>, partition |-> -1, offset |-> -1, headers |-> <<>>]
NoOut == [kind |-> "none"]

\* ------------------------------------------------------- handler: strconv
Digits == <<"0", "1", "2", "3", "4", "5", "6", "7", "8", "9">>

IsDigit(p) == \E d \in 1..10 : Digits[d] = p

DigitVal(p) == (CHOOSE d \in 1..10 : Digits[d] = p) - 1

RECURSIVE UintStr(_)
UintStr(n) ==
    IF n < 10 THEN <<Digits[n + 1]>>
    ELSE UintStr(n \div 10) \o <<Digits[(n % 10) + 1]>>

\* strconv.Itoa / strconv.FormatInt(_, 10).
Itoa(n) == IF n < 0 THEN <<"-">> \o UintStr(-n) ELSE UintStr(n)

RECURSIVE UintVal(_, _)
UintVal(s, acc) ==
    IF s = <<>> THEN acc
    ELSE UintVal(Tail(s), acc * 10 + DigitVal(Head(s)))

\* strconv.Atoi with its error dropped (`retryCount, _ :=`): an optional
\* sign followed by digits; anything else gives 0.
Atoi(s) ==
    LET signed == s # <<>> /\ Head(s) \in {"+", "-"}
        body == IF signed THEN Tail(s) ELSE s
    IN  IF body = <<>> \/ \E i \in 1..Len(body) : ~IsDigit(body[i])
        THEN 0
        ELSE IF signed /\ Head(s) = "-" THEN -UintVal(body, 0)
        ELSE UintVal(body, 0)

\* ------------------------------------------------------- handler: helpers
\* getHeaderValue: the value of the first header with that key, else "".
RECURSIVE getHeaderValue(_, _)
getHeaderValue(headers, key) ==
    IF headers = <<>> THEN <<>>
    ELSE IF Head(headers).key = key THEN Head(headers).value
    ELSE getHeaderValue(Tail(headers), key)

\* strings.NewReplacer(old1, new1, ...).Replace(template): every placeholder
\* piece is replaced, the replacement is not scanned again.
RECURSIVE Replace(_, _)
Replace(template, subst) ==
    IF template = <<>> THEN <<>>
    ELSE (IF Head(template) \in DOMAIN subst
          THEN subst[Head(template)] ELSE <<Head(template)>>)
         \o Replace(Tail(template), subst)

\* isRetryable taking every error for retryable.
isRetryable_AnyError(err) == err # NoErr

\* isRetryable, lines 154-161.
isRetryable(err) ==
    IF err = NoErr THEN FALSE
    ELSE err \in hcfg.retryableExceptions

\* The base topic taken from the message handled, whatever its headers.
BaseTopic_Current(msg) == msg.topic

\* Lines 74-77: the base topic.
BaseTopic(msg) ==
    LET h == getHeaderValue(msg.headers, HeaderOriginalTopic)
    IN  IF h = <<>> THEN msg.topic ELSE h

\* The retry branch with an off-by-one bound.
ShouldRetry_AtMax(retryable, retryCount, maxRetries) ==
    retryable /\ retryCount <= maxRetries

\* Line 79: the retry branch is taken.
ShouldRetry(retryable, retryCount, maxRetries) ==
    retryable /\ retryCount < maxRetries

\* Line 81: h.config.RetryDelays[retryCount] panics outside 0..len-1.
DelayInRange(retryCount) ==
    retryCount >= 0 /\ retryCount < Len(hcfg.retryDelays)

\* Lines 82-85 and 94-96: the target topic.
RetryTopic(baseTopic, delay) ==
    Replace(hcfg.retryTopicTemplate,
            [p \in {"{topic}", "{delaySec}"} |->
                IF p = "{topic}" THEN baseTopic ELSE Itoa(delay)])

DltTopic(baseTopic) ==
    Replace(hcfg.dltTopicTemplate, [p \in {"{topic}"} |-> baseTopic])

\* The retry branch writing 1 whatever the count was.
NextRetryCount_One(retryCount) == 1

\* The retry branch without its increment.
NextRetryCount_Same(retryCount) == retryCount

\* Line 91: retryCount++.
NextRetryCount(retryCount) == retryCount + 1

RECURSIVE DropKey(_, _)
DropKey(headers, key) ==
    IF headers = <<>> THEN <<>>
    ELSE (IF Head(headers).key # key THEN <<Head(headers)>> ELSE <<>>)
         \o DropKey(Tail(headers), key)

\* prepareMessage, lines 125-152.
prepareMessage(original, err, retryCount, baseTopic) ==
    [topic |-> <<>>,
     key |-> original.key,
     value |-> original.value,
     headers |->
        DropKey(original.headers, HeaderRetryCount)
        \o << [key |-> HeaderRetryCount, value |-> Itoa(retryCount)],
              [key |-> HeaderOriginalTopic, value |-> baseTopic],
              [key |-> HeaderOriginalPartition,
               value |-> Itoa(original.partition)],
              [key |-> HeaderOriginalOffset, value |-> Itoa(original.offset)] >>
        \o (IF err # NoErr
            THEN << [key |-> HeaderExceptionFqcn,
                     value |-> <<"*errors.errorString">>],
                    [key |-> HeaderExceptionMessage, value |-> <<err>>],
                    [key |-> HeaderExceptionStacktrace,
                     value |-> <<"stacktrace not implemented">>] >>
            ELSE <<>>)]

Range(list) == {list[i] : i \in 1..Len(list)}

\* ------------------------------------------------------- handler: Init
HandlerInit ==
    /\ hcfg = NoCfg
    /\ writers = {}
    /\ inMsg = NoMsg
    /\ first = NoMsg
    /\ hops = 0
    /\ out = NoOut

\* ------------------------------------------------------- handler: actions
\* NewFailureHandler, lines 44-58.
NewFailureHandler(enabled, delays, retryTpl, dltTpl, retryable) ==
    /\ ~hcfg.made
    /\ hcfg' = [made |-> TRUE,
                enabled |-> enabled,
                retryDelays |-> delays,
                retryTopicTemplate |-> retryTpl,
                dltTopicTemplate |-> dltTpl,
                retryableExceptions |-> Range(retryable)]
    /\ UNCHANGED <<writers, inMsg, first, hops, out>>
    /\ UNCHANGED nonHandlerVars

\* A consumer reads a message from an original topic for the first time.
Deliver(topic, partition, offset, headers) ==
    /\ hcfg.made
    /\ inMsg = NoMsg
    /\ hops = 0
    /\ inMsg' = [topic |-> topic, partition |-> partition, offset |-> offset,
                 key |-> "k", value |-> "v", headers |-> headers]
    /\ first' = [topic |-> topic, partition |-> partition, offset |-> offset,
                 headers |-> headers]
    /\ hops' = 1
    /\ UNCHANGED <<hcfg, writers, out>>
    /\ UNCHANGED nonHandlerVars

\* WriteTargets writing a second time after a refused write.
WriteTargets_Again(targetTopic, writeOk) ==
    IF writeOk THEN <<targetTopic>> ELSE <<targetTopic, targetTopic>>

\* Lines 106-110: the topics Handle calls WriteMessages for: the one call of
\* line 106, whose error is recorded on the span and nothing else.
WriteTargets(targetTopic, writeOk) == <<targetTopic>>

Enabled_AlwaysOn == TRUE

\* Line 61: h.config.Enabled.
Enabled == hcfg.enabled

\* FailureHandler.Handle, lines 60-111, for the delivered message and the
\* error its processing failed with; writeOk is whether WriteMessages on the
\* target topic's writer returned nil.
Handle(err, writeOk) ==
    /\ hcfg.made
    /\ inMsg # NoMsg
    /\ inMsg' = NoMsg
    /\ IF ~Enabled
       THEN /\ out' = [kind |-> "disabled", in |-> inMsg, err |-> err]
            /\ UNCHANGED writers
       ELSE LET retryCount == Atoi(getHeaderValue(inMsg.headers, HeaderRetryCount))
                retryable == isRetryable(err)
                maxRetries == Len(hcfg.retryDelays)
                baseTopic == BaseTopic(inMsg)
                retry == ShouldRetry(retryable, retryCount, maxRetries)
            IN  IF retry /\ ~DelayInRange(retryCount)
                THEN /\ out' = [kind |-> "panic", in |-> inMsg, err |-> err]
                     /\ UNCHANGED writers
                ELSE LET targetTopic ==
                             IF retry
                             THEN RetryTopic(baseTopic,
                                             hcfg.retryDelays[retryCount + 1])
                             ELSE DltTopic(baseTopic)
                         newCount == IF retry THEN NextRetryCount(retryCount)
                                     ELSE retryCount
                         newMsg == prepareMessage(inMsg, err, newCount, baseTopic)
                     IN  /\ writers' = writers \cup {targetTopic}
                         /\ out' = [kind |-> "done", in |-> inMsg, err |-> err,
                                    action |-> IF retry THEN "RETRY" ELSE "DLT",
                                    target |-> targetTopic, msg |-> newMsg,
                                    attempted |->
                                        WriteTargets(targetTopic, writeOk),
                                    written |-> writeOk]
    /\ UNCHANGED <<hcfg, first, hops>>
    /\ UNCHANGED nonHandlerVars

\* The message published to a retry topic comes back to a consumer, either
\* read from the retry topic itself or moved back to the original topic by
\* the delay scheduler, at a partition and offset of its own.
Redeliver(partition, offset, toOriginal) ==
    /\ inMsg = NoMsg
    /\ out.kind = "done"
    /\ out.action = "RETRY"
    /\ out.written
    /\ hops < MaxHops
    /\ inMsg' = [topic |-> IF toOriginal THEN first.topic ELSE out.target,
                 partition |-> partition, offset |-> offset,
                 key |-> out.msg.key, value |-> out.msg.value,
                 headers |-> out.msg.headers]
    /\ hops' = hops + 1
    /\ out' = NoOut
    /\ UNCHANGED <<hcfg, writers, first>>
    /\ UNCHANGED nonHandlerVars

HandlerNext ==
    \/ \E enabled \in BOOLEAN : \E delays \in DelayLists :
         \E retryTpl \in RetryTemplates : \E dltTpl \in DltTemplates :
           \E retryable \in RetryableLists :
             NewFailureHandler(enabled, delays, retryTpl, dltTpl, retryable)
    \/ \E topic \in OriginalTopics : \E partition \in 0..MaxPartition :
         \E offset \in 0..MaxOffset : \E headers \in FirstHeaders :
           Deliver(topic, partition, offset, headers)
    \/ \E err \in Errors : \E writeOk \in BOOLEAN : Handle(err, writeOk)
    \/ \E partition \in 0..MaxPartition : \E offset \in 0..MaxOffset :
         \E toOriginal \in BOOLEAN : Redeliver(partition, offset, toOriginal)

\* ------------------------------------------------------- handler: getWriter
\* Consumer workers of one process calling Handle at the same time: each
\* Handle call reaches getWriter(targetTopic) at line 103.
NumWorkers == 2

Workers == 1..NumWorkers
TargetTopics == {<<"orders", ".dlt">>, <<"orders", ".retry.", "5", "s">>}

\* No writer (a nil *kafka.Writer).
NoWriter == [topic |-> <<>>, n |-> 0]

\* NewKafkaWriter(h.brokers, topic): a new object on every call, told apart
\* here by the number of the call for that topic.
NewKafkaWriter(topic) == [topic |-> topic, n |-> built[topic] + 1]

WorkerInit ==
    /\ gpc = [w \in Workers |-> "idle"]
    /\ gtopic = [w \in Workers |-> <<>>]
    /\ gwriter = [w \in Workers |-> NoWriter]
    /\ mu = 0
    /\ cache = [t \in TargetTopics |-> NoWriter]
    /\ built = [t \in TargetTopics |-> 0]

\* Line 103: worker w calls h.getWriter(topic).
GetWriterCall(w, topic) ==
    /\ gpc[w] = "idle"
    /\ gpc' = [gpc EXCEPT ![w] = "lock"]
    /\ gtopic' = [gtopic EXCEPT ![w] = topic]
    /\ gwriter' = [gwriter EXCEPT ![w] = NoWriter]
    /\ UNCHANGED <<mu, cache, built>>
    /\ UNCHANGED nonWorkerVars

\* MuFree with no mutual exclusion.
MuFree_NoMutex == TRUE

\* sync.Mutex: Lock() returns only while no one holds the mutex.
MuFree == mu = 0

\* Line 114: h.mu.Lock().
MuLock(w) ==
    /\ gpc[w] = "lock"
    /\ MuFree
    /\ mu' = w
    /\ gpc' = [gpc EXCEPT ![w] = "lookup"]
    /\ UNCHANGED <<gtopic, gwriter, cache, built>>
    /\ UNCHANGED nonWorkerVars

\* Lines 116-118: the map lookup; a hit is returned.
Lookup(w) ==
    /\ gpc[w] = "lookup"
    /\ IF cache[gtopic[w]] # NoWriter
       THEN /\ gwriter' = [gwriter EXCEPT ![w] = cache[gtopic[w]]]
            /\ gpc' = [gpc EXCEPT ![w] = "unlock"]
       ELSE /\ gpc' = [gpc EXCEPT ![w] = "create"]
            /\ UNCHANGED gwriter
    /\ UNCHANGED <<gtopic, mu, cache, built>>
    /\ UNCHANGED nonWorkerVars

\* Lines 120-122: build the writer, store it, return it.
CreateWriter(w) ==
    /\ gpc[w] = "create"
    /\ built' = [built EXCEPT ![gtopic[w]] = @ + 1]
    /\ cache' = [cache EXCEPT ![gtopic[w]] = NewKafkaWriter(gtopic[w])]
    /\ gwriter' = [gwriter EXCEPT ![w] = NewKafkaWriter(gtopic[w])]
    /\ gpc' = [gpc EXCEPT ![w] = "unlock"]
    /\ UNCHANGED <<gtopic, mu>>
    /\ UNCHANGED nonWorkerVars

\* Line 115: the deferred h.mu.Unlock() as getWriter returns.
MuUnlock(w) ==
    /\ gpc[w] = "unlock"
    /\ mu' = 0
    /\ gpc' = [gpc EXCEPT ![w] = "idle"]
    /\ UNCHANGED <<gtopic, gwriter, cache, built>>
    /\ UNCHANGED nonWorkerVars

WorkerNext ==
    \/ \E w \in Workers : \E topic \in TargetTopics : GetWriterCall(w, topic)
    \/ \E w \in Workers : MuLock(w)
    \/ \E w \in Workers : Lookup(w)
    \/ \E w \in Workers : CreateWriter(w)
    \/ \E w \in Workers : MuUnlock(w)

\* ------------------------------------------------------- outbox: one cycle
\* One ForwardPendingMessages call over a table that already holds BatchLen
\* committed records, each created by SendInTx (PENDING, retry count 0)
\* either within the re-poll window or before it.  No time passes during
\* the call.
BatchLen == 2

CycleInit ==
    /\ LockInit
    /\ PathInit
    /\ HandlerInit
    /\ StartInit
    /\ WorkerInit
    /\ now = 0
    /\ messages \in
         [1..BatchLen ->
            {[topic |-> t, key |-> k, payload |-> p, status |-> "PENDING",
              retryCount |-> 0, updatedAt |-> now - age, tx |-> "committed"] :
                t \in Topics, k \in Keys, p \in Payloads,
                age \in {0, RepollWindow + 1}}]
    /\ fpc = [f \in Forwarders |-> "idle"]
    /\ batch = [f \in Forwarders |-> <<>>]
    /\ cursor = [f \in Forwarders |-> 0]
    /\ pubOk = [f \in Forwarders |-> FALSE]
    /\ broker = {}

\* Lines 46-54: the fetch fails (return err), finds nothing (return nil) or
\* starts the loop.
CycleFetch(f) ==
    /\ \E ok \in BOOLEAN :
         /\ Fetch(f, {ok})
         /\ fres' = [fres EXCEPT ![f] =
                        IF ~ok THEN "err"
                        ELSE IF fpc'[f] = "publish" THEN "running" ELSE "nil"]
    /\ UNCHANGED <<lockVars, handlerVars, spc, cancelled, failures>>

\* Lines 59-75: the write of the current row, which the broker may refuse.
CyclePublish(f) ==
    /\ Publish(f, BOOLEAN)
    /\ UNCHANGED nonOutboxVars

\* Lines 78-89: the status update, which the store may refuse, then the next
\* row or `return nil`.
CycleUpdate(f) ==
    /\ Update(f, BOOLEAN)
    /\ fres' = [fres EXCEPT ![f] = IF fpc'[f] = "idle" THEN "nil" ELSE @]
    /\ UNCHANGED <<lockVars, handlerVars, spc, cancelled, failures>>

CycleNext ==
    \/ \E f \in Instances : CycleFetch(f)
    \/ \E f \in Instances : CyclePublish(f)
    \/ \E f \in Instances : CycleUpdate(f)

\* ------------------------------------------------------- specifications
Init ==
    /\ LockInit
    /\ PathInit
    /\ OutboxInit
    /\ HandlerInit
    /\ StartInit
    /\ WorkerInit

LockSpec == Init /\ [][LockNext]_vars

OutboxSpec == Init /\ [][OutboxNext]_vars

HandlerSpec == Init /\ [][HandlerNext]_vars

ForwarderSpec == Init /\ [][ForwarderNext]_vars

WorkerSpec == Init /\ [][WorkerNext]_vars

PathSpec == Init /\ [][PathNext]_vars

LockExpirySpec == Init /\ [][LockExpiryNext]_vars

CycleSpec == CycleInit /\ [][CycleNext]_vars

\* A caller inside Lock() keeps running: the calls it makes on the
\* connection return, and the select of lines 92-100 ends with the event or
\* with the 30 s timer.  Nothing obliges a caller to call Lock() or Unlock().
LockFairSpec ==
    /\ Init
    /\ [][LockFairNext]_vars
    /\ \A c \in Callers :
          /\ WF_vars(LockList(c))
          /\ WF_vars(LockWatch(c))
          /\ WF_vars(LockWake(c) \/ LockTimeout(c))

\* Forwarder.Start runs in its own goroutine and each call it makes returns;
\* the ticker keeps firing; select picks <-ctx.Done() when it stays ready;
\* the clock goes on.
ForwarderFairSpec ==
    /\ Init
    /\ [][ForwarderNext]_vars
    /\ WF_vars(Minute)
    /\ \A f \in Instances :
          /\ WF_vars(Start(f))
          /\ WF_vars(StartTick(f))
          /\ SF_vars(StartStop(f))
          /\ WF_vars(CallFetch(f))
          /\ WF_vars(CallPublish(f))
          /\ WF_vars(CallUpdate(f))

\* ------------------------------------------------------- lock: claims
\* C1 (as claimed): mutual exclusion.  With every caller using its own lock
\* object on one resource and no session expiry, at most one caller is a
\* holder (its Lock() returned nil and it has not yet called Unlock()).
C1_MutualExclusion ==
    \A a \in Callers : \A b \in Callers :
        (held[a] /\ held[b]) => a = b

\* C3 (as claimed): FIFO.  A Lock() call returns nil only if no node created
\* earlier (smaller sequence suffix) is still live without its caller having
\* acquired: B never overtakes a live, not yet served, earlier request A.
C3_FifoOrder ==
    [][\A b \in Callers :
          (lpc[b] = "list" /\ lres'[b] = "ok" /\ lres[b] # "ok") =>
              \A n \in zkNodes :
                  n.seq < lockNode[b].seq => n \in acquired]_vars

\* ------------------------------------------------------- outbox: claims
\* C2 (as claimed): outbox atomicity.  No row written by a SendInTx call
\* exists in the table once the caller's transaction of that call has been
\* rolled back.
C2_RollbackLeavesNoRecord ==
    \A id \in 1..Len(messages) : messages[id].tx # "rolledback"

\* The step in which forwarder f ends the handling of its current row
\* (the UpdateStatus call of ForwardPendingMessages has returned).
UpdateStepOf(f) == fpc[f] = "update" /\ fpc'[f] # "update"

InCount == Atoi(getHeaderValue(out.in.headers, HeaderRetryCount))

\* The values of the headers with that key, in order.
RECURSIVE ValuesOf(_, _)
ValuesOf(headers, key) ==
    IF headers = <<>> THEN <<>>
    ELSE (IF Head(headers).key = key THEN <<Head(headers).value>> ELSE <<>>)
         \o ValuesOf(Tail(headers), key)

\* Handle ran on an enabled handler and either published or panicked.
Handled == out.kind \in {"done", "panic"}

ErrRetryable == out.err # NoErr /\ out.err \in hcfg.retryableExceptions

\* C5: enabled handler, retryable error, retry count n with
\* 0 <= n < len(retryDelays): Handle publishes to the retry topic made from
\* the base topic and retryDelays[n], and the published message carries the
\* retry-count header n+1 (retryDelays = [5,30,120], n = 2: delay 120,
\* header 3).
C5_RetryRouting ==
    (Handled /\ ErrRetryable /\ InCount >= 0
             /\ InCount < Len(hcfg.retryDelays)) =>
        /\ out.kind = "done"
        /\ out.target = BaseTopic(out.in) \o <<".retry.">>
                        \o Itoa(hcfg.retryDelays[InCount + 1]) \o <<"s">>
        /\ out.target \in writers
        /\ ValuesOf(out.msg.headers, HeaderRetryCount) = <<Itoa(InCount + 1)>>
        /\ (hcfg.retryDelays = <<5, 30, 120>> /\ InCount = 2) =>
              /\ out.target = BaseTopic(out.in)
                              \o <<".retry.", "1", "2", "0", "s">>
              /\ ValuesOf(out.msg.headers, HeaderRetryCount) = << <<"3">> >>

\* The third retry of a message under retryDelays = [5,30,120].
C5_Witness ==
    /\ out.kind = "done"
    /\ out.action = "RETRY"
    /\ out.written
    /\ hcfg.retryDelays = <<5, 30, 120>>
    /\ InCount = 2
    /\ hops = 3

\* C6: retry count at or above len(retryDelays): Handle publishes to the
\* dead-letter topic of the base topic whether or not the error is
\* retryable, and the published retry-count header holds the same count.
C6_ExhaustedToDlt ==
    (Handled /\ InCount >= Len(hcfg.retryDelays)) =>
        /\ out.kind = "done"
        /\ out.target = BaseTopic(out.in) \o <<".dlt">>
        /\ out.target \in writers
        /\ ValuesOf(out.msg.headers, HeaderRetryCount) = <<Itoa(InCount)>>
        /\ Atoi(getHeaderValue(out.msg.headers, HeaderRetryCount)) = InCount

\* A retryable failure of a message that used up its three retries.
C6_Witness ==
    /\ out.kind = "done"
    /\ ErrRetryable
    /\ hcfg.retryDelays = <<5, 30, 120>>
    /\ InCount = 3
    /\ hops = 4
    /\ out.target = first.topic \o <<".dlt">>

\* C7: an error that is not retryable (nil, or its text not equal to a
\* configured signature) is published to the dead-letter topic whatever the
\* retry budget left, also at retry count 0, and never to a retry topic.
C7_NonRetryableToDlt ==
    (Handled /\ (out.err = NoErr \/ out.err \notin hcfg.retryableExceptions)) =>
        /\ out.kind = "done"
        /\ out.action = "DLT"
        /\ out.target = BaseTopic(out.in) \o <<".dlt">>
        /\ out.target \in writers

\* An error whose text only starts with a retryable signature, at count 0
\* with the whole retry budget left.
C7_Witness ==
    /\ out.kind = "done"
    /\ out.err = "timeout: db"
    /\ "timeout" \in hcfg.retryableExceptions
    /\ InCount = 0
    /\ Len(hcfg.retryDelays) = 3
    /\ out.target = first.topic \o <<".dlt">>

\* C8: on every pass of a logical message, the base topic of the target
\* topic and every dlt-original-topic header of the published message are
\* the topic of the first hop, never a retry topic.
C8_BaseTopicIsFirstHop ==
    out.kind = "done" =>
        /\ ValuesOf(out.msg.headers, HeaderOriginalTopic) # <<>>
        /\ \A i \in 1..Len(out.msg.headers) :
              out.msg.headers[i].key = HeaderOriginalTopic =>
                  out.msg.headers[i].value = first.topic
        /\ out.target \in
              {first.topic \o <<".dlt">>} \cup
              {first.topic \o <<".retry.">> \o Itoa(hcfg.retryDelays[k]) \o <<"s">> :
                  k \in 1..Len(hcfg.retryDelays)}

\* A pass that handled the message as read from a retry topic.
C8_Witness ==
    /\ out.kind = "done"
    /\ hops >= 3
    /\ out.in.topic # first.topic
    /\ out.action = "RETRY"

\* C9 (as claimed): when a message re-enters Handle after a retry hop, the
\* dlt-original-partition and dlt-original-offset headers Handle attaches
\* hold the partition and offset of the first hop.
C9_LineagePartitionOffset ==
    (out.kind = "done" /\ hops >= 2) =>
        LET ps == ValuesOf(out.msg.headers, HeaderOriginalPartition)
            os == ValuesOf(out.msg.headers, HeaderOriginalOffset)
        IN  /\ ps[Len(ps)] = Itoa(first.partition)
            /\ os[Len(os)] = Itoa(first.offset)

\* ------------------------------------------------------- forwarder: claims
\* The record id has been committed and no forwarder has taken it up yet.
CommittedUntouched(id) ==
    /\ messages[id].tx = "committed"
    /\ messages[id].status = "PENDING"
    /\ messages[id].retryCount = 0
    /\ \A m \in broker : m.id # id
    /\ \A g \in Forwarders : \A i \in 1..Len(batch[g]) : batch[g][i].id # id

\* The step in which f's call of ForwardPendingMessages runs its fetch.
FetchStepOf(f) ==
    /\ spc[f] = "call"
    /\ fpc[f] = "idle"
    /\ spc'[f] = "select" \/ fpc'[f] = "publish"

\* C11 (as claimed): a call of ForwardPendingMessages that follows the commit
\* of a SendInTx transaction, with the store and the broker working, takes the
\* record up instead of returning without it, the broker gets a message with
\* the record's topic, key and payload, and the record is SENT when the
\* call has handled it.
C11_ForwardAfterCommit ==
    [][\A f \in Instances : \A id \in 1..Len(messages) :
          /\ (FetchStepOf(f) /\ ~cancelled[f] /\ CommittedUntouched(id)) =>
                /\ fpc'[f] = "publish"
                /\ \E i \in 1..Len(batch'[f]) : batch'[f][i].id = id
          /\ (/\ UpdateStepOf(f)
              /\ batch[f][cursor[f]].id = id
              /\ pubOk[f]
              /\ ~cancelled[f]) =>
                /\ messages'[id].status = "SENT"
                /\ \E m \in broker :
                      /\ m.id = id
                      /\ m.topic = messages[id].topic
                      /\ m.key = messages[id].key
                      /\ m.value = messages[id].payload]_vars

\* The broker has accepted a message of record id from a forwarder.
Published(id) == \E m \in broker : m.id = id

C16_CycleNotInterrupted ==
    /\ \A f \in Instances : cancelled[f] ~> (spc[f] = "returned")
    /\ [][\A f \in Instances :
             /\ (spc[f] # "returned" /\ spc'[f] = "returned") =>
                   fpc[f] = "idle"
             /\ UpdateStepOf(f) =>
                   LET msg == batch[f][cursor[f]]
                   IN  /\ messages'[msg.id].status =
                              (IF pubOk[f] THEN "SENT" ELSE "PENDING")
                       /\ messages'[msg.id].retryCount =
                              (IF pubOk[f] THEN msg.retryCount
                               ELSE msg.retryCount + 1)]_vars

\* ------------------------------------------------------- lock: more claims
\* No caller other than b is inside Lock() or holds the lock.
NoOtherContender(b) ==
    \A o \in Callers \ {b} : lpc[o] = "idle" /\ ~held[o]

\* A caller other than b has held the lock and its Unlock() has returned nil:
\* a node it had acquired with has been deleted.
ReleasedByOther(b) ==
    \E n \in acquired \ zkNodes : n.owner # b

\* C13 (as claimed): a Lock() called by b after a different caller's Unlock()
\* has returned success, with no other contender, returns success
\* immediately: the node the call creates is children[0] of the listing
\* Lock() makes next, which is its test for returning nil.
C13_LockAfterUnlock ==
    [][\A b \in Callers :
          (/\ lpc[b] = "idle"
           /\ lpc'[b] = "list"
           /\ ReleasedByOther(b)
           /\ NoOtherContender(b)) =>
              SortStrings(zkNodes')[1] = lockNode'[b]]_vars

\* The step in which an Unlock() call of c returns.
UnlockStepOf(c) ==
    /\ lres'[c] # lres[c]
    /\ lres'[c] \in {"errNoLock", "errDelete", "unlocked"}

\* C14 (as claimed): Unlock() on a lock object on which no Lock() has
\* returned nil so far (never locked, or every Lock() returned an error)
\* fails with the "no lock held" error and deletes no node; a call the
\* coordination service itself fails is left aside.
C14_UnlockWithoutLock ==
    [][\A c \in Callers :
          (/\ UnlockStepOf(c)
           /\ lres'[c] # "errDelete"
           /\ \A n \in acquired : n.owner # c) =>
              /\ lres'[c] = "errNoLock"
              /\ zkNodes' = zkNodes]_vars

\* C15 (as claimed): every Lock() call eventually returns, with success or
\* with an error, and a wait that ends without a notification returns the
\* timeout error, which is none of the coordination-service errors.
C15_LockReturns ==
    /\ \A c \in Callers : (lpc[c] # "idle") ~> (lpc[c] = "idle")
    /\ [][\A c \in Callers :
             (lpc[c] = "wait" /\ ~fired[c] /\ lpc'[c] = "idle") =>
                 /\ lres'[c] = "timeout"
                 /\ lres'[c] \notin {"errCreate", "errChildren", "errWatch",
                                     "errNoPrev"}]_vars

\* ------------------------------------------------------- handler: more claims
\* C17: with the enable flag off Handle is a no-op, for every message and
\* error: the handler never publishes (Handle neither writes to a topic nor
\* reaches the retry/DLT branch), and its writer cache stays as
\* NewFailureHandler made it, empty.
C17_DisabledNoOp ==
    (hcfg.made /\ ~hcfg.enabled) =>
        /\ writers = {}
        /\ out.kind \in {"none", "disabled"}
        /\ out.kind = "disabled" => inMsg = NoMsg

\* Handle returned on a disabled handler for a message that carries retry
\* headers and an error of the retryable list.
C17_Witness ==
    /\ hcfg.made /\ ~hcfg.enabled
    /\ out.kind = "disabled"
    /\ out.err # NoErr /\ out.err \in hcfg.retryableExceptions
    /\ hcfg.retryDelays # <<>>

\* ------------------------------------------------------- outbox: more claims
\* C18: the record a SendInTx(topic, key, payload) call creates is a new last
\* row with status PENDING, retry count 0 and exactly that topic, key and
\* payload; the rows already there are left as they were.
C18_CreatedPending ==
    [][\A topic \in Topics : \A key \in Keys : \A payload \in Payloads :
         SendInTx(topic, key, payload) =>
             LET id == Len(messages')
             IN  /\ id = Len(messages) + 1
                 /\ messages'[id].status = "PENDING"
                 /\ messages'[id].retryCount = 0
                 /\ messages'[id].topic = topic
                 /\ messages'[id].key = key
                 /\ messages'[id].payload = payload
                 /\ \A j \in 1..Len(messages) : messages'[j] = messages[j]]_vars

\* A record as SendInTx left it, its transaction still open.
C18_Witness ==
    \E id \in 1..Len(messages) :
        /\ messages[id].tx = "open"
        /\ messages[id].status = "PENDING"
        /\ messages[id].retryCount = 0
        /\ messages[id].topic = "stock"
        /\ messages[id].updatedAt = now

\* C19: no step changes the topic, key or payload of an existing record or
\* removes a record (the forwarder's updates touch status, retry count and
\* update time only), and every message at the broker carries the topic,
\* key and payload of the record it was published for.
C19_ContentImmutable ==
    /\ [][/\ Len(messages') >= Len(messages)
          /\ \A id \in 1..Len(messages) :
               /\ messages'[id].topic = messages[id].topic
               /\ messages'[id].key = messages[id].key
               /\ messages'[id].payload = messages[id].payload]_vars
    /\ [](\A m \in broker :
            /\ m.id \in 1..Len(messages)
            /\ m.topic = messages[m.id].topic
            /\ m.key = messages[m.id].key
            /\ m.value = messages[m.id].payload)

\* A record whose first write failed and whose second write succeeded: two
\* status updates were made on it and its message is at the broker.
C19_Witness ==
    \E id \in 1..Len(messages) :
        /\ messages[id].status = "SENT"
        /\ messages[id].retryCount >= 1
        /\ messages[id].updatedAt > 0
        /\ \E m \in broker : m.id = id /\ m.value = messages[id].payload

\* C20 (as claimed): with any number of forwarders on one store, a step
\* changes the status or retry count of a record only from PENDING to SENT
\* with the count kept, or from PENDING to PENDING with the count plus one;
\* a SENT record is never PENDING again.
C20_StatusTransitions ==
    [][\A id \in 1..Len(messages) :
         LET old == messages[id]
             new == messages'[id]
         IN  (old.status # new.status \/ old.retryCount # new.retryCount) =>
                 /\ old.status = "PENDING"
                 /\ \/ new.status = "SENT" /\ new.retryCount = old.retryCount
                    \/ /\ new.status = "PENDING"
                       /\ new.retryCount = old.retryCount + 1]_vars

\* The ids of the rows FindPendingMessages(100) returns in this state.
Selected ==
    LET rows == FindPendingMessages(ForwardLimit)
    IN  {rows[i].id : i \in 1..Len(rows)}

LockFailsAfterCreate(c) ==
    /\ lpc[c] # "idle"
    /\ lpc'[c] = "idle"
    /\ lres'[c] \in {"timeout", "errChildren", "errWatch", "errNoPrev"}

\* C22 (as claimed): when Lock() returns an error after its node was
\* created, that node is no longer under the resource path; so no node of
\* a caller whose Lock() failed is ever the first of the sorted children.
C22_NoNodeAfterFailedLock ==
    /\ [][\A c \in Callers :
            LockFailsAfterCreate(c) => lockNode[c] \notin zkNodes']_vars
    /\ [](\A c \in Callers :
            (/\ lpc[c] = "idle"
             /\ lres[c] \in {"timeout", "errChildren", "errWatch", "errNoPrev"}
             /\ zkNodes # {})
                => SortStrings(zkNodes)[1] # lockNode[c])

\* C23 (as claimed): when the node picked as predecessor has been deleted
\* by the time ExistsW is called on it and the call returns no error,
\* Lock() goes back to the top of its loop at once (to list the children
\* again and acquire if its node is now first); it does not enter the wait
\* that only the 30 s timer can end.
C23_MissingPredecessorLoops ==
    [][\A c \in Callers :
         (/\ lpc[c] = "watch"
          /\ prevNode[c] \notin zkNodes
          /\ lpc'[c] # "watch"
          /\ lres'[c] # "errWatch")
             => lpc'[c] = "list"]_vars

\* The live siblings with a smaller sequence suffix than caller c's node.
SmallerSeq(c) == {n \in zkNodes : n.seq < lockNode[c].seq}

\* C24 (as claimed): the order Lock() uses is that of the sequence suffixes,
\* whatever the rest of the names: a listing that returned makes the caller
\* the holder iff no live sibling has a smaller suffix than its node, and
\* otherwise the node it goes on to watch is the sibling with the greatest
\* suffix smaller than its own.
C24_OrderBySequenceSuffix ==
    [][\A c \in Callers :
         (lpc[c] = "list" /\ lpc'[c] # "list" /\ lres'[c] # "errChildren") =>
             /\ (lres'[c] = "ok") <=> (SmallerSeq(c) = {})
             /\ lpc'[c] = "watch" =>
                    /\ prevNode'[c] \in SmallerSeq(c)
                    /\ \A n \in SmallerSeq(c) : n.seq <= prevNode'[c].seq]_vars

\* ------------------------------------------------------- outbox: claims C25..
\* Forwarder f's FindPendingMessages returned rows in this step.
FetchedBy(f) == fpc[f] = "idle" /\ fpc'[f] = "publish"

\* C25: forwarders on one store do not exclude each other.  A fetch marks
\* nothing: the rows it returns are all the selected rows, whichever of
\* them the other forwarder holds in its batch, and they stay selected for
\* the other forwarder; so one record can be in both batches and be
\* published by both (the witness).
C25_FetchNotExclusive ==
    [][\A f \in Forwarders :
         FetchedBy(f) =>
             /\ {batch'[f][i].id : i \in 1..Len(batch'[f])} = Selected
             /\ Selected' = Selected]_vars

\* Both forwarders have published the same record and neither has stored
\* its status yet.
C25_Witness ==
    \E id \in 1..Len(messages) :
        /\ messages[id].status = "PENDING"
        /\ \A f \in Forwarders :
             /\ fpc[f] = "update"
             /\ pubOk[f]
             /\ batch[f][cursor[f]].id = id

\* ------------------------------------------------------- handler: claims C26..
\* C26 (as claimed): whatever the incoming retry-count header is (absent,
\* not a number, negative, beyond the maximum), Handle completes normally:
\* it never indexes retryDelays outside 0..len-1 (which panics); and a
\* message without the header is handled as retry count 0.
C26_AnyRetryCountHandled ==
    /\ out.kind # "panic"
    /\ (/\ out.kind = "done"
        /\ getHeaderValue(out.in.headers, HeaderRetryCount) = <<>>)
           => /\ InCount = 0
              /\ out.action = "RETRY" =>
                     getHeaderValue(out.msg.headers, HeaderRetryCount) = <<"1">>

\* The logical message was first delivered without retry history: no
\* retry-count header, or one that reads as 0.
Fresh == Atoi(getHeaderValue(first.headers, HeaderRetryCount)) = 0

\* C27: the retry loop is bounded.  For a logical message first delivered
\* without retry history, on an enabled handler, the k-th delivery carries
\* retry count k-1; while it fails with a retryable error, deliveries
\* 1..len(retryDelays) are published to the retry topic of delay
\* retryDelays[k-1] (list order) with the retry-count header k, and
\* delivery len(retryDelays)+1 is published to the dead-letter topic with
\* the header unchanged; there is no further delivery, and the header
\* never exceeds len(retryDelays).
C27_RetryLoopBounded ==
    (hcfg.made /\ hcfg.enabled /\ hops >= 1 /\ Fresh) =>
        LET max == Len(hcfg.retryDelays)
        IN  /\ hops <= max + 1
            /\ out.kind # "panic"
            /\ inMsg # NoMsg =>
                   Atoi(getHeaderValue(inMsg.headers, HeaderRetryCount)) = hops - 1
            /\ out.kind = "done" =>
                   /\ InCount = hops - 1
                   /\ Atoi(getHeaderValue(out.msg.headers, HeaderRetryCount)) <= max
                   /\ (ErrRetryable /\ hops <= max) =>
                          /\ out.action = "RETRY"
                          /\ out.target = first.topic \o <<".retry.">>
                                 \o Itoa(hcfg.retryDelays[hops]) \o <<"s">>
                          /\ ValuesOf(out.msg.headers, HeaderRetryCount)
                                 = <<Itoa(hops)>>
                   /\ hops = max + 1 =>
                          /\ out.action = "DLT"
                          /\ out.target = first.topic \o <<".dlt">>
                          /\ ValuesOf(out.msg.headers, HeaderRetryCount)
                                 = <<Itoa(max)>>

\* A message without retry history under retryDelays = [5,30,120] that
\* failed four times with a retryable error: three retry hops were written
\* and the fourth delivery went to the dead-letter topic.
C27_Witness ==
    /\ hcfg.made
    /\ hcfg.retryDelays = <<5, 30, 120>>
    /\ first.headers = <<>>
    /\ hops = 4
    /\ out.kind = "done"
    /\ ErrRetryable
    /\ out.action = "DLT"
    /\ out.written

\* C28 (as claimed): under every interleaving of forwarders no step lowers
\* the retry count of a record; and where one forwarder alone works on a
\* record (no other forwarder is in a cycle and the row is as it was
\* fetched), the count goes up by exactly one with each failed write whose
\* outcome is stored and stays as it is after a successful one, so that it
\* counts the failed attempts.
C28_RetryCountMonotone ==
    [][/\ \A id \in 1..Len(messages) :
            messages'[id].retryCount >= messages[id].retryCount
       /\ \A f \in Forwarders :
            LET msg == batch[f][cursor[f]]
            IN  (/\ UpdateStepOf(f)
                 /\ messages' # messages
                 /\ \A g \in Forwarders \ {f} : fpc[g] = "idle"
                 /\ messages[msg.id].retryCount = msg.retryCount)
                    => messages'[msg.id].retryCount =
                           messages[msg.id].retryCount
                               + (IF pubOk[f] THEN 0 ELSE 1)]_vars

\* ------------------------------------------------------- lock: claims C29..
\* Node p is directly ahead of node n in the queue of requests: it was
\* created before n and no live node was created between the two.
DirectlyAhead(p, n) ==
    /\ p.seq < n.seq
    /\ \A m \in zkNodes : ~(p.seq < m.seq /\ m.seq < n.seq)

\* The waiters whose watch is triggered in this step.
Notified == {w \in Callers : ~fired[w] /\ fired'[w]}

\* C29 (as claimed): no thundering herd.  A waiting caller watches one
\* node, the one directly ahead of its own in the queue; no two waiters
\* watch the same node; the deletion of a node notifies at most one waiter,
\* the one directly behind the deleted node.
C29_NoThunderingHerd ==
    /\ [](\A c \in Callers :
            lpc[c] = "wait" => DirectlyAhead(prevNode[c], lockNode[c]))
    /\ [](\A a \in Callers : \A b \in Callers :
            (a # b /\ lpc[a] = "wait" /\ lpc[b] = "wait"
                   /\ ~fired[a] /\ ~fired[b])
               => prevNode[a] # prevNode[b])
    /\ [][/\ Cardinality(Notified) <= 1
          /\ \A w \in Notified :
               /\ prevNode[w] \in zkNodes \ zkNodes'
               /\ DirectlyAhead(prevNode[w], lockNode[w])]_vars

\* ------------------------------------------------------- outbox: claim C30
\* C30: in one ForwardPendingMessages call the records are handled
\* independently.  A fetch error ends the call with that error, nothing
\* fetched and nothing published; a fetch that found rows starts with the
\* first of all the selected rows.  A write, accepted or refused, is
\* followed by the status update of the same row.  A status update, stored
\* or refused, after either outcome of the write, is followed by the write
\* of the next row of the batch, or after the last row by the return of
\* nil.  The call returns an error only from the fetch.
C30_RecordsIndependent ==
    /\ [](\A f \in Instances :
            /\ (fres[f] = "running") <=> (fpc[f] # "idle")
            /\ fres[f] = "err" => batch[f] = <<>>)
    /\ [][\A f \in Instances :
            /\ (fpc[f] = "idle" /\ fres'[f] = "err") =>
                   /\ broker' = broker
                   /\ messages' = messages
                   /\ fpc'[f] = "idle"
            /\ FetchedBy(f) =>
                   /\ cursor'[f] = 1
                   /\ {batch'[f][i].id : i \in 1..Len(batch'[f])} = Selected
            /\ fpc[f] = "publish" =>
                   /\ fpc'[f] = "update"
                   /\ cursor'[f] = cursor[f]
                   /\ batch'[f] = batch[f]
                   /\ fres'[f] = "running"
            /\ fpc[f] = "update" =>
                   IF cursor[f] < Len(batch[f])
                   THEN /\ fpc'[f] = "publish"
                        /\ cursor'[f] = cursor[f] + 1
                        /\ batch'[f] = batch[f]
                        /\ fres'[f] = "running"
                   ELSE /\ fpc'[f] = "idle"
                        /\ fres'[f] = "nil"]_vars

\* A call over two selected records has returned nil: the write of the
\* first was refused and its retry count is 1, the second was written after
\* that, and its status update was refused (it is at the broker and still
\* PENDING with count 0).
C30_Witness ==
    /\ Len(messages) >= 2
    /\ \A f \in Instances : fres[f] = "nil" /\ fpc[f] = "idle"
    /\ messages[1].status = "PENDING" /\ messages[1].retryCount = 1
    /\ ~Published(1)
    /\ Published(2)
    /\ messages[2].status = "PENDING" /\ messages[2].retryCount = 0

\* ------------------------------------------------------- handler: claim C31
\* C31: whatever the interleaving of the workers' getWriter calls, at most
\* one writer is ever built for a topic, and every call returns the writer
\* cached for its topic, so all the publishes to one topic go through the
\* same writer.
C31_OneWriterPerTopic ==
    /\ \A t \in TargetTopics :
         /\ built[t] <= 1
         /\ cache[t] # NoWriter => cache[t] = [topic |-> t, n |-> 1]
    /\ \A w \in Workers :
         gwriter[w] # NoWriter => gwriter[w] = cache[gtopic[w]]
    /\ \A a \in Workers : \A b \in Workers :
         (gtopic[a] = gtopic[b] /\ gwriter[a] # NoWriter /\ gwriter[b] # NoWriter)
            => gwriter[a] = gwriter[b]

\* Two workers are inside getWriter for the same topic at the same time:
\* one holds the mutex and has built and stored the writer, the other
\* waits for the mutex.
C31_Witness ==
    \E a \in Workers : \E b \in Workers :
        /\ a # b
        /\ gtopic[a] \in TargetTopics
        /\ gtopic[a] = gtopic[b]
        /\ mu = a
        /\ gpc[a] = "unlock"
        /\ built[gtopic[a]] = 1
        /\ gwriter[a] = cache[gtopic[a]]
        /\ gpc[b] = "lock"

\* ------------------------------------------------------- lock: claim C32
\* C32: when NewDistributedLock has returned to a caller, every segment of
\* its lock path exists; and a caller fails only on an error of the
\* service: a Create that lost the race for a segment ("node exists") does
\* not fail the caller.
C32_EnsurePath ==
    \A c \in Callers :
        /\ epc[c] = "done" =>
              \A i \in 1..Len(LockPathOf(erid[c])) :
                  SubSeq(LockPathOf(erid[c]), 1, i) \in segs
        /\ epc[c] = "panic" => eerr[c] = "error"

\* Both callers built the path at the same time and both returned; one of
\* them lost the race for a segment.
C32_Witness ==
    /\ \A c \in Callers : epc[c] = "done" /\ erid[c] = "order"
    /\ \E c \in Callers : eerr[c] = "ErrNodeExists"
    /\ \E c \in Callers : eerr[c] = "nil"

\* ------------------------------------------------------- outbox: claim C33
\* The ids of the eligible rows fewer than limit eligible rows precede.
LowestEligible(limit) ==
    LET ids == {id \in 1..Len(messages) : Eligible(id)}
    IN  {id \in ids : Cardinality({j \in ids : j < id}) < limit}

Ascending(rows) ==
    \A i, j \in 1..Len(rows) : i < j => rows[i].id < rows[j].id

\* C33: FindPendingMessages(limit) returns at most limit rows, in ascending
\* id order, and they are the eligible rows with the lowest ids, for every
\* limit from 1 to one more than the rows of the table.
\* ForwardPendingMessages asks for ForwardLimit rows, and its writes go
\* through what it fetched from the first row on, one row at a time: the
\* message a write hands to the broker is that of the row at the cursor,
\* and every row before the cursor has been written before.
C33_LimitAscending ==
    /\ [](\A limit \in 1..(Len(messages) + 1) :
            LET rows == FindPendingMessages(limit)
            IN  /\ Len(rows) <= limit
                /\ Ascending(rows)
                /\ {rows[i].id : i \in 1..Len(rows)} = LowestEligible(limit))
    /\ [](\A f \in Instances :
            /\ Len(batch[f]) <= ForwardLimit
            /\ Ascending(batch[f]))
    /\ [][\A f \in Instances :
            /\ FetchedBy(f) =>
                   /\ batch'[f] = FindPendingMessages(ForwardLimit)
                   /\ cursor'[f] = 1
            /\ (fpc[f] = "publish" /\ fpc'[f] = "update") =>
                   /\ broker' \ broker \subseteq
                          {m \in broker' : m.id = batch[f][cursor[f]].id}
                   /\ pubOk'[f] => Published(batch[f][cursor[f]].id)'
            /\ (fpc[f] = "update" /\ fpc'[f] = "publish") =>
                   /\ cursor'[f] = cursor[f] + 1
                   /\ batch'[f] = batch[f]]_vars

\* Two rows are eligible and a limit of 1 returns the first only; the
\* forwarder has fetched both and is at the write of the second after the
\* write of the first.
C33_Witness ==
    \E f \in Instances :
        /\ Len(batch[f]) = 2
        /\ fpc[f] = "publish"
        /\ cursor[f] = 2
        /\ Published(batch[f][1].id)
        /\ ~Published(batch[f][2].id)
        /\ Eligible(2)
        /\ Len(FindPendingMessages(1)) = 1

\* ------------------------------------------------------- handler: claim C34
\* C34 (as claimed): the message Handle publishes has exactly one
\* retry-count header, holding the new count, and each of
\* dlt-original-topic, dlt-original-partition and dlt-original-offset
\* exactly once, on every pass of the message through the handler.
C34_HeadersOnce ==
    out.kind = "done" =>
        LET old == Atoi(getHeaderValue(out.in.headers, HeaderRetryCount))
            new == IF out.action = "RETRY" THEN old + 1 ELSE old
        IN  /\ ValuesOf(out.msg.headers, HeaderRetryCount) = <<Itoa(new)>>
            /\ \A key \in {HeaderOriginalTopic, HeaderOriginalPartition,
                           HeaderOriginalOffset} :
                   Len(ValuesOf(out.msg.headers, key)) = 1

\* ------------------------------------------------------- outbox: claim C35
\* C35: a record is SENT only if the broker has accepted a write of that
\* record before, whatever the interleaving of the forwarders; and a
\* forwarder about to record a successful write has had that row accepted.
C35_SentOnlyIfPublished ==
    /\ \A id \in 1..Len(messages) :
          messages[id].status = "SENT" => Published(id)
    /\ \A f \in Forwarders :
          (fpc[f] = "update" /\ pubOk[f]) =>
              Published(batch[f][cursor[f]].id)

\* A record is SENT after the write of one forwarder, while another
\* forwarder that fetched the same record has had its write refused.
C35_Witness ==
    \E id \in 1..Len(messages) : \E f \in Forwarders :
        /\ messages[id].status = "SENT"
        /\ Published(id)
        /\ fpc[f] = "update"
        /\ ~pubOk[f]
        /\ batch[f][cursor[f]].id = id

\* ------------------------------------------------------- forwarder: claim C36
\* C36 (as claimed): once the ctx of Start has been cancelled, Start calls
\* ForwardPendingMessages no more, also when the ticker has a tick ready at
\* the time of the cancellation.
C36_NoCycleAfterCancel ==
    [][\A f \in Instances :
          (spc[f] = "select" /\ spc'[f] = "call") => ~cancelled[f]]_vars

C38_LiveNodesTracked ==
    \A n \in zkNodes : lockNode[n.owner] = n

\* ------------------------------------------------------- lock: claim C39
\* C39: Unlock() changes the lock object only when it succeeds.  When the
\* Delete fails it returns the error, the object records the same node as
\* before and no node is removed; when it returns nil, the node being
\* there or gone already, the object records no node and the node is not
\* live; when it returns the no-lock error nothing changes.  After a
\* successful Unlock() the object records no node, and a further Unlock()
\* returns the no-lock error.
C39_UnlockStateOnSuccessOnly ==
    /\ [](\A c \in Callers : lres[c] = "unlocked" => lockNode[c] = NoNode)
    /\ [][\A c \in Callers :
            UnlockStepOf(c) =>
                /\ lres'[c] = "errDelete" =>
                      /\ lockNode[c] # NoNode
                      /\ lockNode'[c] = lockNode[c]
                      /\ zkNodes' = zkNodes
                /\ lres'[c] = "errNoLock" =>
                      /\ lockNode[c] = NoNode
                      /\ lockNode'[c] = NoNode
                      /\ zkNodes' = zkNodes
                /\ lres'[c] = "unlocked" =>
                      /\ lockNode[c] # NoNode
                      /\ lockNode'[c] = NoNode
                      /\ zkNodes' = zkNodes \ {lockNode[c]}
                /\ lres[c] = "unlocked" => lres'[c] = "errNoLock"]_vars

\* An Unlock() of a caller that had acquired the lock failed on the Delete:
\* the object still records its node, which is live.
C39_Witness ==
    \E c \in Callers :
        /\ lres[c] = "errDelete"
        /\ lockNode[c] \in zkNodes
        /\ lockNode[c] \in acquired

====
